---- MODULE Spec2Model ----
(***************************************************************************)
(* Model of the streaming analysis orchestrator of codebase-deep-analyzer  *)
(* (src/src/core/analyzer.rs): analyze_streaming with its resume           *)
(* checkpoint (.cda-progress), the per-file tasks gated by a semaphore,    *)
(* the batch join, and analyze_module_with_llm_retry.                      *)
(*                                                                         *)
(* A path is modelled by the index of its file in the inventory; the       *)
(* checkpoint file is the sequence of writes it received, one token per    *)
(* write(2): a path, or NL for the newline.  File-system writes succeed;   *)
(* reads may fail (the code's read-failure branch).                        *)
(***************************************************************************)
EXTENDS Integers, Sequences, FiniteSets, TLC

\* ---- bounds of the model ----
NumFiles == 3
MaxParallelism == 2
MaxRuns == 2

\* ---- program constants ----
LargeFileThreshold == 100000
TruncateAt == 30000
MaxRetries == 3

Files == 1..NumFiles
NL == 0

\* FileInventory.source_files, in discovery order
inventory == [i \in 1..NumFiles |-> i]

\* Contents fs::read_to_string may return: byte length, and whether byte
\* offset TruncateAt falls on a char boundary (str::is_char_boundary)
ContentChoices ==
    { [len |-> LargeFileThreshold,     boundary |-> TRUE],
      [len |-> LargeFileThreshold,     boundary |-> FALSE],
      [len |-> LargeFileThreshold + 1, boundary |-> TRUE] }

VARIABLES
    parallelism,  \* AnalyzeArgs.parallelism
    ckpt,         \* .cda-progress: sequence of writes (path tokens and NL)
    docs,         \* modules/<safe_name>.md per file: "none", "deep" or "structural"
    runs,         \* number of invocations started
    runPc,        \* position of analyze_streaming
    startLen,     \* length of .cda-progress when the invocation read it
    completed,    \* HashSet<String> returned by load_progress
    remaining,    \* Vec<&SourceFile> still to process
    batchIdx,     \* batch_idx of the chunks loop
    pos,          \* number of files of remaining the spawn loop has handled
    handles,      \* Vec<JoinHandle> of the current batch
    modules,      \* analysis.modules: the entries pushed by the batches, in order
    placeholders, \* analysis.modules: the resume entries pushed last, in HashSet order
    permits,      \* available permits of the semaphore
    task,         \* file -> state of its spawned task
    script,       \* retry harness: the answers of the simulated capability
    out,          \* retry harness: what analyze_module_with_llm_retry returned
    sources,      \* inventory.source_files given to analyze_static or parse_file
    spos,         \* number of source files the loop of analyze_static has handled
    analysis,     \* Analysis.modules built by analyze_static or given to cross_reference
    crossref,     \* what cross_reference returned
    parsed,       \* what parse_file returned
    doneOrder,    \* the files of the run in the order their tasks finished
    described,    \* what extract_doc_comment returned
    total         \* what Analysis::total_exports returned

vars == <<parallelism, ckpt, docs, runs, runPc, startLen, completed,
          remaining, batchIdx, pos, handles, modules, placeholders,
          permits, task, script, out, sources, spos, analysis, crossref, parsed,
          doneOrder, described, total>>

diskVars == <<ckpt, docs>>
inputVars == <<parallelism>>
runVars == <<runs, runPc, startLen, completed, remaining, batchIdx, pos, handles, modules,
            placeholders, permits, task, doneOrder>>
harnessVars == <<script, out>>
staticVars == <<sources, spos, analysis, crossref, parsed, described, total>>

\* extract_doc_comment and total_exports have not been called
NoDescription == [done |-> FALSE, line |-> 0, text |-> <<>>]
NoTotal == -1

NoContent == [len |-> 0, boundary |-> TRUE]

NoTask == [pc |-> "none", content |-> NoContent, calls |-> 0, result |-> "none"]

NoOut == [ok |-> FALSE, err |-> "not run", log |-> <<>>]

NoCrossRef == [done |-> FALSE, dependencies |-> <<>>, gaps |-> <<>>, external_deps |-> <<>>]

NoParse == [done |-> FALSE, ok |-> FALSE, exports |-> <<>>, imports |-> <<>>]

Min(a, b) == IF a < b THEN a ELSE b

\* ---- load_progress: BufReader::lines collected into a HashSet ----
RECURSIVE SplitLines(_, _, _)
SplitLines(c, cur, acc) ==
    IF c = <<>> THEN (IF cur = <<>> THEN acc ELSE Append(acc, cur))
    ELSE IF Head(c) = NL THEN SplitLines(Tail(c), <<>>, Append(acc, cur))
    ELSE SplitLines(Tail(c), Append(cur, Head(c)), acc)

\* the lines of the checkpoint file, in order
Lines(c) == SplitLines(c, <<>>, <<>>)

LoadProgress(c) == { Lines(c)[i] : i \in 1..Len(Lines(c)) }

\* the line that a path occupies when written whole
PathLine(f) == <<f>>

\* mutant: the resume filter is dropped
RemainingUnfiltered(done) == inventory

\* remaining = source_files.filter(|f| !completed.contains(&f.path))
Remaining(done) == SelectSeq(inventory, LAMBDA f : PathLine(f) \notin done)

\* remaining.chunks(parallelism): end position of batch b (0-based)
BatchEnd(b) == Min(Len(remaining), (b + 1) * parallelism)

\* mutant: the guard compares with >=
TooLargeInclusive(f) == task[f].content.len >= LargeFileThreshold

\* content.len() > 100_000
TooLarge(f) == task[f].content.len > LargeFileThreshold

\* &content[..30000] panics when 30000 is not a char boundary
SlicePanics(f) == task[f].content.len > TruncateAt /\ ~task[f].content.boundary

\* What one call of analyze_module_with_llm may answer: Ok, or an error text
Responses == {"ok", "rate_limit", "overloaded", "ANTHROPIC_API_KEY not set"}

\* mutant: every error is retried
IsTransientAny(e) == e # "ok"

\* err_str.contains("rate_limit") || err_str.contains("overloaded")
IsTransient(e) == e \in {"rate_limit", "overloaded"}

\* mutant: the delay grows linearly
BackoffDelayLinear(attempt) == 2 * attempt + 1

\* Duration::from_secs(2u64.pow(attempt))
BackoffDelay(attempt) == 2 ^ attempt

\* The answers a capability gives to successive calls
Scripts == [1..MaxRetries -> Responses]

\* analyze_module_with_llm_retry: the loop `for attempt in 0..max_retries`,
\* with the calls and sleeps it makes logged in order
RECURSIVE RetryLoop(_, _, _, _, _)
RetryLoop(answers, maxRetries, attempt, lastError, log) ==
    IF attempt >= maxRetries
    THEN [ok |-> FALSE,
          err |-> IF lastError = "none" THEN "Max retries exceeded" ELSE lastError,
          log |-> log]
    ELSE LET slept == IF attempt > 0
                      THEN Append(log, [ev |-> "sleep", delay |-> BackoffDelay(attempt),
                                        resp |-> "none"])
                      ELSE log
             r == answers[attempt + 1]
             called == Append(slept, [ev |-> "call", delay |-> 0, resp |-> r])
         IN  IF r = "ok" THEN [ok |-> TRUE, err |-> "none", log |-> called]
             ELSE IF IsTransient(r)
                  THEN RetryLoop(answers, maxRetries, attempt + 1, r, called)
                  ELSE [ok |-> FALSE, err |-> r, log |-> called]

\* mutant: the loop never stops on the attempt count alone; it goes on as long
\* as the capability has answers left
RetryUntilAnswersEnd(answers, maxRetries) ==
    RetryLoop(answers \o <<"rate_limit">>, Len(answers) + 1, 0, "none", <<>>)

AnalyzeModuleWithLlmRetry(answers, maxRetries) ==
    RetryLoop(answers, maxRetries, 0, "none", <<>>)

\* the match on the retry result in the spawned task: (summary, has_deep)
BranchResult(o) == IF o.ok THEN "deep" ELSE "structural"

\* number of calls of analyze_module_with_llm in a log
Calls(log) == Cardinality({ i \in DOMAIN log : log[i].ev = "call" })

\* what the task keeps of a retry result
Outcome(o) == [result |-> BranchResult(o), calls |-> Calls(o.log)]

\* ModuleAnalysis.has_deep_analysis of an entry of each kind
HasDeepAnalysis(kind) == kind \in {"deep", "placeholder"}

StreamingIdle ==
    /\ ckpt = <<>>
    /\ docs = [f \in Files |-> "none"]
    /\ runs = 0
    /\ runPc = "idle"
    /\ startLen = 0
    /\ completed = {}
    /\ remaining = <<>>
    /\ batchIdx = 0
    /\ pos = 0
    /\ handles = <<>>
    /\ modules = <<>>
    /\ placeholders = {}
    /\ permits = 0
    /\ task = [f \in Files |-> NoTask]
    /\ doneOrder = <<>>
    /\ script = [i \in 1..MaxRetries |-> "ok"]
    /\ out = NoOut

StaticIdle ==
    /\ sources = <<>>
    /\ spos = 0
    /\ analysis = <<>>
    /\ crossref = NoCrossRef
    /\ parsed = NoParse
    /\ described = NoDescription
    /\ total = NoTotal

Init ==
    /\ parallelism \in 0..MaxParallelism
    /\ StreamingIdle
    /\ StaticIdle

\* ---- analyze_streaming: start of an invocation ----
StartRun ==
    /\ runPc \in {"idle", "returned", "aborted"}
    /\ runs < MaxRuns
    /\ runs' = runs + 1
    /\ startLen' = Len(ckpt)
    /\ completed' = LoadProgress(ckpt)
    /\ remaining' = Remaining(LoadProgress(ckpt))
    /\ modules' = <<>>
    /\ placeholders' = {}
    /\ permits' = parallelism
    /\ task' = [f \in Files |-> NoTask]
    /\ batchIdx' = 0
    /\ pos' = 0
    /\ handles' = <<>>
    \* remaining.chunks(0) panics: "chunk size must be non-zero"
    /\ runPc' = IF parallelism = 0 THEN "aborted"
                ELSE IF Remaining(LoadProgress(ckpt)) = <<>> THEN "placeholders"
                ELSE "spawn"
    /\ doneOrder' = <<>>
    /\ UNCHANGED <<diskVars, inputVars, harnessVars, staticVars>>

\* ---- one iteration of the spawn loop: read the file, spawn its task ----
ReadAndSpawn ==
    /\ runPc = "spawn"
    /\ pos < BatchEnd(batchIdx)
    /\ LET f == remaining[pos + 1] IN
       \/ \* fs::read_to_string returns Ok(content)
          \E c \in ContentChoices :
             /\ task' = [task EXCEPT ![f].pc = "spawned", ![f].content = c]
             /\ handles' = Append(handles, f)
             /\ modules' = modules
       \/ \* fs::read_to_string returns Err
          /\ modules' = Append(modules, [path |-> PathLine(f), kind |-> "readfail"])
          /\ UNCHANGED <<task, handles>>
    /\ pos' = pos + 1
    /\ runPc' = IF pos + 1 = BatchEnd(batchIdx) THEN "join" ELSE "spawn"
    /\ UNCHANGED <<diskVars, inputVars, harnessVars, staticVars, runs, startLen, completed, remaining, batchIdx,
                   placeholders, permits, doneOrder>>

\* ---- the spawned task ----
\* mutant: `let _ = semaphore.acquire()` drops the permit at once
TaskAcquireDropped(f) ==
    /\ task[f].pc = "spawned"
    /\ permits > 0
    /\ task' = [task EXCEPT ![f].pc = "running"]
    /\ UNCHANGED <<diskVars, inputVars, harnessVars, staticVars, runs, runPc, startLen, completed,
                   remaining, batchIdx, pos, handles, modules, placeholders, permits, doneOrder>>

\* let _permit = semaphore.acquire().await.unwrap()
TaskAcquire(f) ==
    /\ task[f].pc = "spawned"
    /\ permits > 0
    /\ permits' = permits - 1
    /\ task' = [task EXCEPT ![f].pc = "running"]
    /\ UNCHANGED <<diskVars, inputVars, harnessVars, staticVars, runs, runPc, startLen, completed, remaining,
                   batchIdx, pos, handles, modules, placeholders, doneOrder>>

\* mutant: a too-large file is written and checkpointed like an enriched one
TaskSkipLargeCheckpointed(f) ==
    /\ task[f].pc = "running"
    /\ TooLarge(f)
    /\ task' = [task EXCEPT ![f].pc = "write", ![f].result = "toolarge"]
    /\ UNCHANGED <<diskVars, inputVars, harnessVars, staticVars, runs, runPc, startLen, completed,
                   remaining, batchIdx, pos, handles, modules, placeholders, permits, doneOrder>>

\* parse, then the size guard: a too-large file finishes without enrichment
TaskSkipLarge(f) ==
    /\ task[f].pc = "running"
    /\ TooLarge(f)
    /\ task' = [task EXCEPT ![f].pc = "done", ![f].result = "toolarge"]
    /\ permits' = permits + 1
    /\ doneOrder' = Append(doneOrder, f)
    /\ UNCHANGED <<diskVars, inputVars, harnessVars, staticVars, runs, runPc, startLen, completed, remaining,
                   batchIdx, pos, handles, modules, placeholders>>

\* The answers a call on the content of f can return: with the API key set
\* the prompt is built from &content[..30000], which must not panic
AnswersFor(f) ==
    { answers \in Scripts : SlicePanics(f) => answers[1] = "ANTHROPIC_API_KEY not set" }

\* analyze_module_with_llm_retry(&file_path, &content, &static_context, 3)
TaskEnrich(f) ==
    /\ task[f].pc = "running"
    /\ ~TooLarge(f)
    /\ \E o \in { Outcome(AnalyzeModuleWithLlmRetry(answers, MaxRetries)) :
                      answers \in AnswersFor(f) } :
          task' = [task EXCEPT ![f].pc = "write", ![f].calls = o.calls,
                                ![f].result = o.result]
    /\ UNCHANGED <<diskVars, inputVars, harnessVars, staticVars, runs, runPc, startLen, completed, remaining,
                   batchIdx, pos, handles, modules, placeholders, permits, doneOrder>>

\* &content[..30000] panics inside the first call: the task unwinds, the
\* permit is dropped, and the JoinHandle yields Err
TaskPanic(f) ==
    /\ task[f].pc = "running"
    /\ ~TooLarge(f)
    /\ SlicePanics(f)
    /\ task' = [task EXCEPT ![f].pc = "panicked", ![f].calls = 1]
    /\ permits' = permits + 1
    /\ doneOrder' = Append(doneOrder, f)
    /\ UNCHANGED <<diskVars, inputVars, harnessVars, staticVars, runs, runPc, startLen, completed, remaining,
                   batchIdx, pos, handles, modules, placeholders>>

\* mutant: the document write is left out before the checkpoint append
TaskWriteDocSkipped(f) ==
    /\ task[f].pc = "write"
    /\ task' = [task EXCEPT ![f].pc = "save"]
    /\ UNCHANGED <<diskVars, inputVars, harnessVars, staticVars, runs, runPc, startLen, completed,
                   remaining, batchIdx, pos, handles, modules, placeholders, permits, doneOrder>>

\* write_module_markdown, with or without the deep analysis
TaskWriteDoc(f) ==
    /\ task[f].pc = "write"
    /\ docs' = [docs EXCEPT ![f] = task[f].result]
    /\ task' = [task EXCEPT ![f].pc = "save"]
    /\ UNCHANGED <<ckpt, inputVars, harnessVars, staticVars, runs, runPc, startLen, completed, remaining,
                   batchIdx, pos, handles, modules, placeholders, permits, doneOrder>>

\* save_progress: writeln!(file, "{}", file_path) on an unbuffered File opened
\* in append mode issues one write for the path and one for the newline
SaveProgressPath(f) ==
    /\ task[f].pc = "save"
    /\ ckpt' = Append(ckpt, f)
    /\ task' = [task EXCEPT ![f].pc = "nl"]
    /\ UNCHANGED <<docs, inputVars, harnessVars, staticVars, runs, runPc, startLen, completed, remaining,
                   batchIdx, pos, handles, modules, placeholders, permits, doneOrder>>

SaveProgressNewline(f) ==
    /\ task[f].pc = "nl"
    /\ ckpt' = Append(ckpt, NL)
    /\ task' = [task EXCEPT ![f].pc = "done"]
    /\ permits' = permits + 1
    /\ doneOrder' = Append(doneOrder, f)
    /\ UNCHANGED <<docs, inputVars, harnessVars, staticVars, runs, runPc, startLen, completed, remaining,
                   batchIdx, pos, handles, modules, placeholders>>

\* mutant: any finished handle is taken, as a FuturesUnordered would yield it
JoinAnyHandle ==
    /\ runPc = "join"
    /\ \E i \in 1..Len(handles) :
          LET f == handles[i] IN
          /\ task[f].pc \in {"done", "panicked"}
          /\ modules' = IF task[f].pc = "done"
                        THEN Append(modules, [path |-> PathLine(f), kind |-> task[f].result])
                        ELSE modules
          /\ handles' = SubSeq(handles, 1, i - 1) \o SubSeq(handles, i + 1, Len(handles))
    /\ UNCHANGED <<diskVars, inputVars, harnessVars, staticVars, runs, runPc, startLen, completed,
                   remaining, batchIdx, pos, placeholders, permits, task, doneOrder>>

\* ---- the batch join: handle.await in spawn order ----
JoinHandle ==
    /\ runPc = "join"
    /\ handles # <<>>
    /\ LET f == Head(handles) IN
       /\ task[f].pc \in {"done", "panicked"}
       /\ modules' = IF task[f].pc = "done"
                     THEN Append(modules, [path |-> PathLine(f), kind |-> task[f].result])
                     ELSE modules
    /\ handles' = Tail(handles)
    /\ UNCHANGED <<diskVars, inputVars, harnessVars, staticVars, runs, runPc, startLen, completed, remaining,
                   batchIdx, pos, placeholders, permits, task, doneOrder>>

\* mutant: the next batch starts once the first handle has been awaited
BatchJoinedFirst == Len(handles) <= 1

\* `for handle in handles { handle.await }` has awaited every handle
BatchJoined == handles = <<>>

NextBatch ==
    /\ runPc = "join"
    /\ BatchJoined
    /\ IF pos < Len(remaining)
       THEN /\ batchIdx' = batchIdx + 1
            /\ runPc' = "spawn"
       ELSE /\ batchIdx' = batchIdx
            /\ runPc' = "placeholders"
    /\ UNCHANGED <<diskVars, inputVars, harnessVars, staticVars, runs, startLen, completed, remaining, pos, handles,
                   modules, placeholders, permits, task, doneOrder>>

\* mutant: only the completed lines that name a file of the inventory get a
\* placeholder
AddPlaceholdersOfInventory ==
    /\ runPc = "placeholders"
    /\ placeholders' = { [path |-> line, kind |-> "placeholder"] :
                            line \in { l \in completed : \E f \in Files : l = PathLine(f) } }
    /\ runPc' = "returned"
    /\ UNCHANGED <<diskVars, inputVars, harnessVars, staticVars, runs, startLen, completed, remaining,
                   batchIdx, pos, handles, modules, permits, task, doneOrder>>

\* `for path in &completed`: one placeholder per completed line, then Ok(analysis)
AddPlaceholders ==
    /\ runPc = "placeholders"
    /\ placeholders' = { [path |-> line, kind |-> "placeholder"] : line \in completed }
    /\ runPc' = "returned"
    /\ UNCHANGED <<diskVars, inputVars, harnessVars, staticVars, runs, startLen, completed, remaining, batchIdx,
                   pos, handles, modules, permits, task, doneOrder>>

\* ---- the process is terminated in the middle of a run ----
Crash ==
    /\ runPc \in {"spawn", "join", "placeholders"}
    /\ runPc' = "idle"
    /\ startLen' = 0
    /\ completed' = {}
    /\ remaining' = <<>>
    /\ batchIdx' = 0
    /\ pos' = 0
    /\ handles' = <<>>
    /\ modules' = <<>>
    /\ placeholders' = {}
    /\ permits' = 0
    /\ task' = [f \in Files |-> NoTask]
    /\ doneOrder' = <<>>
    /\ UNCHANGED <<diskVars, inputVars, harnessVars, staticVars, runs>>

\* ---- analyze_module_with_llm_retry against a simulated capability ----
InitRetry ==
    /\ Init
    /\ parallelism = 1

RunRetry ==
    /\ out = NoOut
    /\ \E answers \in Scripts :
          /\ script' = answers
          /\ out' = AnalyzeModuleWithLlmRetry(answers, MaxRetries)
    /\ UNCHANGED <<diskVars, inputVars, runVars, staticVars>>

ResetRetry ==
    /\ out # NoOut
    /\ out' = NoOut
    /\ UNCHANGED <<script, diskVars, inputVars, runVars, staticVars>>

NextRetry ==
    \/ RunRetry
    \/ ResetRetry

SpecRetry == InitRetry /\ [][NextRetry]_vars

Next ==
    \/ StartRun
    \/ ReadAndSpawn
    \/ \E f \in Files : TaskAcquire(f)
    \/ \E f \in Files : TaskSkipLarge(f)
    \/ \E f \in Files : TaskEnrich(f)
    \/ \E f \in Files : TaskPanic(f)
    \/ \E f \in Files : TaskWriteDoc(f)
    \/ \E f \in Files : SaveProgressPath(f)
    \/ \E f \in Files : SaveProgressNewline(f)
    \/ JoinHandle
    \/ NextBatch
    \/ AddPlaceholders
    \/ Crash

Spec == Init /\ [][Next]_vars

\* ---------------------------------------------------------------------
\* Strings: spelled as characters where the code looks inside them
\* ---------------------------------------------------------------------
Text(s) ==
    CASE s = "main" -> <<"m", "a", "i", "n">>
      [] s = "helper" -> <<"h", "e", "l", "p", "e", "r">>
      [] s = "run" -> <<"r", "u", "n">>
      [] s = "my_test" -> <<"m", "y", "_", "t", "e", "s", "t">>
      [] s = "Test" -> <<"T", "e", "s", "t">>
      [] s = "test" -> <<"t", "e", "s", "t">>
      [] s = "pub" -> <<"p", "u", "b">>
      [] s = "pub(crate)" -> <<"p", "u", "b", "(", "c", "r", "a", "t", "e", ")">>
      [] s = "module_a" -> <<"m", "o", "d", "u", "l", "e", "_", "a">>
      [] s = "module_b" -> <<"m", "o", "d", "u", "l", "e", "_", "b">>
      [] s = "module_c" -> <<"m", "o", "d", "u", "l", "e", "_", "c">>
      [] s = "anyhow" -> <<"a", "n", "y", "h", "o", "w">>
      [] s = "serde" -> <<"s", "e", "r", "d", "e">>
      [] s = "tokio" -> <<"t", "o", "k", "i", "o">>
      [] s = "crate" -> <<"c", "r", "a", "t", "e">>
      [] s = "./local" -> <<".", "/", "l", "o", "c", "a", "l">>
      [] s = "../up" -> <<".", ".", "/", "u", "p">>
      [] s = "/abs" -> <<"/", "a", "b", "s">>
      [] s = "@/app" -> <<"@", "/", "a", "p", "p">>
      [] s = "@scope/pkg" -> <<"@", "s", "c", "o", "p", "e", "/", "p", "k", "g">>
      [] s = "." -> <<".">>
      [] s = "/" -> <<"/">>
      [] s = "@/" -> <<"@", "/">>
      [] s = "" -> <<>>

\* byte values of the characters: String's Ord compares bytes
CharCode(c) ==
    CASE c = "(" -> 40 [] c = ")" -> 41 [] c = "T" -> 84 [] c = "_" -> 95
      [] c = "a" -> 97 [] c = "b" -> 98 [] c = "c" -> 99 [] c = "d" -> 100
      [] c = "e" -> 101 [] c = "h" -> 104 [] c = "i" -> 105 [] c = "k" -> 107
      [] c = "l" -> 108 [] c = "m" -> 109 [] c = "n" -> 110 [] c = "o" -> 111
      [] c = "p" -> 112 [] c = "r" -> 114 [] c = "s" -> 115 [] c = "t" -> 116
      [] c = "u" -> 117 [] c = "w" -> 119 [] c = "y" -> 121

\* str::contains
Contains(hay, needle) ==
    \E i \in 0..(Len(Text(hay)) - Len(Text(needle))) :
        SubSeq(Text(hay), i + 1, i + Len(Text(needle))) = Text(needle)

RECURSIVE LexLess(_, _)
LexLess(a, b) ==
    IF a = <<>> THEN b # <<>>
    ELSE IF b = <<>> THEN FALSE
    ELSE IF Head(a) = Head(b) THEN LexLess(Tail(a), Tail(b))
    ELSE CharCode(Head(a)) < CharCode(Head(b))

\* String's Ord
StrLess(a, b) == LexLess(Text(a), Text(b))

\* Vec<String>::sort
RECURSIVE InsertSorted(_, _)
InsertSorted(x, sorted) ==
    IF sorted = <<>> THEN <<x>>
    ELSE IF StrLess(x, Head(sorted)) THEN <<x>> \o sorted
    ELSE <<Head(sorted)>> \o InsertSorted(x, Tail(sorted))

SortUnsorted(v) == v

RECURSIVE Sort(_)
Sort(v) == IF v = <<>> THEN <<>> ELSE InsertSorted(Head(v), Sort(Tail(v)))

\* Vec<String>::dedup: drops an element equal to the one before it
RECURSIVE Dedup(_)
Dedup(v) ==
    IF Len(v) <= 1 THEN v
    ELSE IF v[1] = v[2] THEN Dedup(Tail(v))
    ELSE <<v[1]>> \o Dedup(Tail(v))

\* HashSet<String>::into_iter().collect(): the elements in some order
RECURSIVE Collect(_)
Collect(S) ==
    IF S = {} THEN <<>>
    ELSE LET x == CHOOSE y \in S : TRUE IN <<x>> \o Collect(S \ {x})

\* ---------------------------------------------------------------------
\* cross_reference
\* ---------------------------------------------------------------------
\* pass 1: the (name, path) pairs in the order the loops insert them
RECURSIVE ExportPairs(_)
ExportPairs(mods) ==
    IF mods = <<>> THEN <<>>
    ELSE [i \in 1..Len(Head(mods).exports) |->
               <<Head(mods).exports[i].name, Head(mods).path>>]
         \o ExportPairs(Tail(mods))

InsertFirstWins(map, k, v) == map @@ (k :> v)

\* HashMap::insert: a later value replaces an earlier one
Insert(map, k, v) == (k :> v) @@ map

RECURSIVE InsertAll(_, _)
InsertAll(map, pairs) ==
    IF pairs = <<>> THEN map
    ELSE InsertAll(Insert(map, Head(pairs)[1], Head(pairs)[2]), Tail(pairs))

AllExports(mods) == InsertAll(<<>>, ExportPairs(mods))

RECURSIVE InternalFirstItems(_)
InternalFirstItems(imports) ==
    IF imports = <<>> THEN <<>>
    ELSE (IF Head(imports).is_external \/ Head(imports).items = <<>>
          THEN <<>> ELSE <<Head(imports).items[1]>>)
         \o InternalFirstItems(Tail(imports))

\* pass 2: the items of the imports with is_external = false, in order
RECURSIVE InternalItems(_)
InternalItems(imports) ==
    IF imports = <<>> THEN <<>>
    ELSE (IF Head(imports).is_external THEN <<>> ELSE Head(imports).items)
         \o InternalItems(Tail(imports))

Resolved(m, all) == SelectSeq(InternalItems(m.imports), LAMBDA it : it \in DOMAIN all)

DepsOf(m, all) ==
    LET r == Resolved(m, all)
    IN  Dedup(Sort([i \in 1..Len(r) |-> all[r[i]]]))

UsedExports(mods, all) ==
    UNION { { Resolved(mods[i], all)[j] : j \in 1..Len(Resolved(mods[i], all)) } : i \in 1..Len(mods) }

ExternalDeps(mods) ==
    UNION { { mods[i].imports[j].source :
                j \in { k \in 1..Len(mods[i].imports) : mods[i].imports[k].is_external } } :
            i \in 1..Len(mods) }

ExemptMainOnly(name) == name = "main"

\* pass 3: the names no gap is reported for
Exempt(name) == name = "main" \/ Contains(name, "test")

IsGapEither(e, used) == e.name \notin used \/ e.description = <<>>

\* description.is_empty(): a description is the sequence of its joined texts
IsGap(e, used) == e.name \notin used /\ e.description = <<>>

\* impl Display for ExportKind
KindDisplay(kind) ==
    CASE kind = "Function" -> "fn"
      [] kind = "Class" -> "class"
      [] kind = "Type" -> "type"
      [] kind = "Const" -> "const"
      [] kind = "Enum" -> "enum"
      [] kind = "Trait" -> "trait/interface"
      [] kind = "Struct" -> "struct"
      [] kind = "Module" -> "mod"

GapFor(m, e) ==
    [kind |-> "MissingDocumentation",
     description |-> <<"Public ", KindDisplay(e.kind), " ", e.name, " has no documentation">>,
     location |-> <<m.path, ":", e.line_number>>]

\* mutant: a module's own imports do not count as usage of its exports
ModuleGapsOwnImportsIgnored(m, used) ==
    LET own == { InternalItems(m.imports)[k] : k \in 1..Len(InternalItems(m.imports)) }
        es == SelectSeq(m.exports, LAMBDA e : ~Exempt(e.name) /\ IsGap(e, used \ own))
    IN  [i \in 1..Len(es) |-> GapFor(m, es[i])]

ModuleGaps(m, used) ==
    LET es == SelectSeq(m.exports, LAMBDA e : ~Exempt(e.name) /\ IsGap(e, used))
    IN  [i \in 1..Len(es) |-> GapFor(m, es[i])]

\* mutant: the gaps of a module are found in the pass that marks the usage,
\* so only the imports of the modules up to it count
RECURSIVE GapsUpTo(_, _, _)
GapsUpTo(mods, all, k) ==
    IF k > Len(mods) THEN <<>>
    ELSE ModuleGaps(mods[k], UsedExports(SubSeq(mods, 1, k), all)) \o GapsUpTo(mods, all, k + 1)

GapsSinglePass(mods, used) == GapsUpTo(mods, AllExports(mods), 1)

RECURSIVE Gaps(_, _)
Gaps(mods, used) ==
    IF mods = <<>> THEN <<>>
    ELSE ModuleGaps(Head(mods), used) \o Gaps(Tail(mods), used)

\* crossref.dependencies.insert(path, deps): the last module of a path wins
Dependencies(mods, all) ==
    [p \in { mods[i].path : i \in 1..Len(mods) } |->
        DepsOf(mods[CHOOSE i \in 1..Len(mods) :
                      mods[i].path = p /\ \A j \in (i + 1)..Len(mods) : mods[j].path # p], all)]

CrossReferenceOf(mods) ==
    LET all == AllExports(mods)
    IN  [done |-> TRUE,
         dependencies |-> Dependencies(mods, all),
         gaps |-> Gaps(mods, UsedExports(mods, all)),
         external_deps |-> Sort(Collect(ExternalDeps(mods)))]

\* ---- cross_reference applied to an Analysis ----
NumModules == 2
MaxExports == 1
MaxImports == 1
MaxItems == 2

SeqsUpTo(S, n) == UNION { [1..k -> S] : k \in 0..n }

AllPaths == <<"module_a", "module_b", "module_c">>

XPaths == { AllPaths[i] : i \in 1..Min(NumModules, Len(AllPaths)) }

XNames == {"main", "helper", "run", "my_test", "Test"}

ExportChoices ==
    [name : XNames, kind : {"Function"}, signature : {"None"},
     description : {<<>>, <<"documented">>}, line_number : {3, 7}]

ImportChoices ==
    [source : {"crate"}, items : SeqsUpTo({"helper", "run"}, MaxItems), is_external : {FALSE}]
    \cup [source : {"serde", "anyhow"}, items : {<<>>, <<"helper">>}, is_external : {TRUE}]

ModuleOf(path, language, exports, imports, summary, deep) ==
    [path |-> path, language |-> language, exports |-> exports, imports |-> imports,
     summary |-> summary, has_deep_analysis |-> deep]

Analyses ==
    { [i \in 1..Cardinality(XPaths) |-> ModuleOf(p[i], "Rust", e[i], m[i], <<>>, FALSE)] :
        p \in { q \in [1..Cardinality(XPaths) -> XPaths] :
                   \A i, j \in DOMAIN q : q[i] = q[j] => i = j },
        e \in [1..Cardinality(XPaths) -> SeqsUpTo(ExportChoices, MaxExports)],
        m \in [1..Cardinality(XPaths) -> SeqsUpTo(ImportChoices, MaxImports)] }

InitXref ==
    /\ parallelism = 1
    /\ StreamingIdle
    /\ sources = <<>>
    /\ spos = 0
    /\ analysis \in Analyses
    /\ crossref = NoCrossRef
    /\ parsed = NoParse
    /\ described = NoDescription
    /\ total = NoTotal

CrossReference ==
    /\ spos = Len(sources)
    /\ ~crossref.done
    /\ crossref' = CrossReferenceOf(analysis)
    /\ UNCHANGED <<diskVars, inputVars, runVars, harnessVars, sources, spos, analysis, parsed,
                   described, total>>

NextXref == CrossReference

SpecXref == InitXref /\ [][NextXref]_vars

\* ---------------------------------------------------------------------
\* parser: a content is its sequence of lines, one syntax node per line
\* ---------------------------------------------------------------------
Line(t, form, vis, name, path, text) ==
    [t |-> t, form |-> form, vis |-> vis, name |-> name, path |-> path, text |-> text]

\* "pub fn name", "fn name", "pub(crate) struct name", ...: vis "" is no visibility_modifier
DeclLine(form, vis, name) == Line("decl", form, vis, name, <<>>, "")
\* "use a::b::c;": the path as its tokens
UseLine(path) == Line("use", "", "", "", path, "")
\* "/// text"
DocLine(text) == Line("doc", "", "", "", <<>>, text)
\* "#[...]"
AttrLine == Line("attr", "", "", "", <<>>, "")
BlankLine == Line("blank", "", "", "", <<>>, "")
\* "//! text"
InnerDocLine == Line("innerdoc", "", "", "", <<>>, "")
\* "export function name", "export class name", ...
JsExportLine(form, name) == Line("export", form, "", name, <<>>, "")
\* "import x from 'source'"
JsImportLine(source) == Line("import", "", "", "", <<>>, source)

Languages ==
    {"Rust", "TypeScript", "JavaScript", "Python", "Go", "Java", "CSharp", "Cpp", "C",
     "Ruby", "Shell", "Unknown"}

RustForms == {"function", "struct", "enum", "type", "const", "trait", "mod"}

RustKind(form) ==
    CASE form = "function" -> "Function"
      [] form = "struct" -> "Struct"
      [] form = "enum" -> "Enum"
      [] form = "type" -> "Type"
      [] form = "const" -> "Const"
      [] form = "trait" -> "Trait"
      [] form = "mod" -> "Module"

\* mutant: the collected lines are not reversed, so they stay bottom-to-top
RECURSIVE DocWalkNoReverse(_, _, _)
DocWalkNoReverse(content, current, doc_lines) ==
    IF current = 0 THEN doc_lines
    ELSE IF content[current].t = "doc"
         THEN DocWalkNoReverse(content, current - 1, Append(doc_lines, content[current].text))
    ELSE IF \/ content[current].t \in {"innerdoc", "attr"}
            \/ (content[current].t = "blank" /\ doc_lines # <<>>)
         THEN DocWalkNoReverse(content, current - 1, doc_lines)
    ELSE doc_lines

\* extract_doc_comment: the loop walking up from the line before `line`;
\* doc_lines is kept top-to-bottom, as after the final reverse()
RECURSIVE DocWalk(_, _, _)
DocWalk(content, current, doc_lines) ==
    IF current = 0 THEN doc_lines
    ELSE IF content[current].t = "doc"
         THEN DocWalk(content, current - 1, <<content[current].text>> \o doc_lines)
    ELSE IF \/ content[current].t \in {"innerdoc", "attr"}
            \/ (content[current].t = "blank" /\ doc_lines # <<>>)
         THEN DocWalk(content, current - 1, doc_lines)
    ELSE doc_lines

\* extract_doc_comment(..).unwrap_or_default(): the description as the
\* sequence of the doc texts that join(" ") puts together; <<>> is ""
ExtractDocComment(content, line) ==
    IF line = 0 \/ line > Len(content) THEN <<>>
    ELSE DocWalk(content, line - 1, <<>>)

\* extract_jsdoc_comment: no line of the contents used here ends with "*/",
\* so the walk collects nothing
ExtractJsDoc(content, line) == <<>>

Indices(content) == [i \in 1..Len(content) |-> i]

\* "vis" => is_pub = text.contains("pub")
IsPub(vis) == Contains(vis, "pub")

\* the matches of export_query that are pushed: a visibility_modifier child,
\* is_pub and a non-empty name
RustExportLines(content) ==
    SelectSeq(Indices(content),
              LAMBDA i : /\ content[i].t = "decl"
                         /\ content[i].vis # ""
                         /\ IsPub(content[i].vis)
                         /\ content[i].name # "")

RustExport(content, i) ==
    [name |-> content[i].name,
     kind |-> RustKind(content[i].form),
     signature |-> IF content[i].form = "function" THEN "Some" ELSE "None",
     description |-> ExtractDocComment(content, i),
     line_number |-> i]

\* path.split("::")
RECURSIVE SplitPath(_, _)
SplitPath(path, cur) ==
    IF path = <<>> THEN <<cur>>
    ELSE IF Head(path) = "::" THEN <<cur>> \o SplitPath(Tail(path), <<>>)
    ELSE SplitPath(Tail(path), cur \o <<Head(path)>>)

\* a segment that is one token is that token; "" is the empty segment
Segment(toks) == IF toks = <<>> THEN "" ELSE toks[1]

Parts(path) == LET p == SplitPath(path, <<>>) IN [i \in 1..Len(p) |-> Segment(p[i])]

\* path.starts_with("crate::")
StartsWithSegment(path, seg) == Len(path) >= 2 /\ path[1] = seg /\ path[2] = "::"

UseItemsNone(path) == <<>>

UseItems(path) == IF Len(Parts(path)) > 1 THEN Tail(Parts(path)) ELSE <<>>

RustImport(path) ==
    [source |-> Parts(path)[1],
     items |-> UseItems(path),
     is_external |-> /\ ~StartsWithSegment(path, "crate")
                     /\ ~StartsWithSegment(path, "self")
                     /\ ~StartsWithSegment(path, "super")]

ParseRust(content) ==
    LET es == RustExportLines(content)
        us == SelectSeq(Indices(content), LAMBDA i : content[i].t = "use")
    IN  [done |-> TRUE, ok |-> TRUE,
         exports |-> [k \in 1..Len(es) |-> RustExport(content, es[k])],
         imports |-> [k \in 1..Len(us) |-> RustImport(content[us[k]].path)]]

JsForms == {"function", "class", "lexical", "type_alias", "interface", "enum"}

JsKind(form) ==
    CASE form = "function" -> "Function"
      [] form = "class" -> "Class"
      [] form = "lexical" -> "Const"
      [] form = "type_alias" -> "Type"
      [] form = "interface" -> "Trait"
      [] form = "enum" -> "Enum"

JsExport(content, i) ==
    [name |-> content[i].name,
     kind |-> JsKind(content[i].form),
     signature |-> IF content[i].form = "function" THEN "Some" ELSE "None",
     description |-> IF content[i].form \in {"function", "class", "lexical"}
                     THEN ExtractJsDoc(content, i) ELSE <<>>,
     line_number |-> i]

\* mutant: only the first character of the prefix is compared
StartsWithFirstChar(s, prefix) ==
    /\ Text(s) # <<>>
    /\ Text(s)[1] = Text(prefix)[1]

\* str::starts_with
StartsWith(s, prefix) ==
    /\ Len(Text(prefix)) <= Len(Text(s))
    /\ SubSeq(Text(s), 1, Len(Text(prefix))) = Text(prefix)

JsImport(source) ==
    [source |-> source,
     items |-> <<>>,
     is_external |-> ~StartsWith(source, ".") /\ ~StartsWith(source, "/")
                     /\ ~StartsWith(source, "@/")]

ParseJsTs(content, language) ==
    LET es == SelectSeq(Indices(content), LAMBDA i : content[i].t = "export")
        ms == SelectSeq(Indices(content), LAMBDA i : content[i].t = "import")
    IN  [done |-> TRUE, ok |-> TRUE,
         exports |-> [k \in 1..Len(es) |-> JsExport(content, es[k])],
         imports |-> [k \in 1..Len(ms) |-> JsImport(content[ms[k]].text)]]

ParseFileAllRust(content, language) == ParseRust(content)

ParseFile(content, language) ==
    CASE language = "Rust" -> ParseRust(content)
      [] language \in {"TypeScript", "JavaScript"} -> ParseJsTs(content, language)
      [] OTHER -> [done |-> TRUE, ok |-> TRUE, exports |-> <<>>, imports |-> <<>>]

SourceFile(path, language, readable, content) ==
    [path |-> path, language |-> language, readable |-> readable, content |-> content]

\* ---- parse_file applied to one content ----
MaxLines == 2

LineChoices ==
    { DeclLine(form, vis, "helper") : form \in RustForms, vis \in {"", "pub", "pub(crate)"} }
    \cup { DocLine("documented"), AttrLine, BlankLine }
    \cup { UseLine(<<"crate", "::", "module_a", "::", "helper">>),
           UseLine(<<"serde", "::", "helper">>),
           UseLine(<<"self", "::", "helper">>),
           UseLine(<<"super", "::", "module_a", "::", "helper">>),
           UseLine(<<"crate">>),
           UseLine(<<"serde">>) }
    \cup { JsExportLine("function", "helper"), JsExportLine("class", "Test"),
           JsImportLine("./local"), JsImportLine("serde"), JsImportLine("../up"),
           JsImportLine("/abs"), JsImportLine("@/app"), JsImportLine("@scope/pkg") }

InitParse ==
    /\ parallelism = 1
    /\ StreamingIdle
    /\ sources \in { <<SourceFile("module_a", l, TRUE, c)>> :
                       l \in Languages, c \in SeqsUpTo(LineChoices, MaxLines) }
    /\ spos = 0
    /\ analysis = <<>>
    /\ crossref = NoCrossRef
    /\ parsed = NoParse
    /\ described = NoDescription
    /\ total = NoTotal

ParseFileStep ==
    /\ ~parsed.done
    /\ Len(sources) = 1
    /\ parsed' = ParseFile(sources[1].content, sources[1].language)
    /\ UNCHANGED <<diskVars, inputVars, runVars, harnessVars, sources, spos, analysis, crossref,
                   described, total>>

NextParse == ParseFileStep

SpecParse == InitParse /\ [][NextParse]_vars

\* ---- extract_doc_comment on a content and a line number ----
MaxDocLines == 4

DocLineChoices ==
    { DocLine("documented"), DocLine("more"), AttrLine, BlankLine, InnerDocLine,
      DeclLine("function", "pub", "helper") }

InitDoc ==
    /\ parallelism = 1
    /\ StreamingIdle
    /\ \E content \in SeqsUpTo(DocLineChoices, MaxDocLines) :
          /\ sources = <<SourceFile("module_a", "Rust", TRUE, content)>>
          /\ \E line \in 0..(Len(content) + 1) :
                described = [done |-> FALSE, line |-> line, text |-> <<>>]
    /\ spos = 0
    /\ analysis = <<>>
    /\ crossref = NoCrossRef
    /\ parsed = NoParse
    /\ total = NoTotal

\* extract_doc_comment(content, line).unwrap_or_default()
ExtractDocStep ==
    /\ ~described.done
    /\ sources # <<>>
    /\ described' = [done |-> TRUE, line |-> described.line,
                     text |-> ExtractDocComment(sources[1].content, described.line)]
    /\ UNCHANGED <<diskVars, inputVars, runVars, harnessVars, sources, spos, analysis,
                   crossref, parsed, total>>

NextDoc == ExtractDocStep

SpecDoc == InitDoc /\ [][NextDoc]_vars

\* ---- analyze_static over an inventory, then cross_reference ----
NumSources == 2

ContentA == <<DocLine("documented"), DeclLine("function", "pub", "helper")>>

ContentB ==
    <<UseLine(<<"crate", "::", "module_a", "::", "helper">>), DeclLine("function", "pub", "run")>>

StaticContents == { <<>>, <<DeclLine("function", "", "helper")>>, ContentA, ContentB }

StaticIndex == 1..Min(NumSources, Len(AllPaths))

Inventories ==
    { [i \in StaticIndex |-> SourceFile(AllPaths[i], l[i], r[i], c[i])] :
        l \in [StaticIndex -> {"Rust", "Python"}],
        r \in [StaticIndex -> BOOLEAN],
        c \in [StaticIndex -> StaticContents] }

\* format!("{:?} file with ...", file.language, ..)
Summary(language, exports) ==
    IF exports = <<>> THEN <<language, " file with no public exports">>
    ELSE <<language, " file with ", Len(exports), " public exports">>

\* mutant: the modules are counted, not their exports
TotalModules(mods) == Len(mods)

\* Analysis::total_exports
RECURSIVE TotalExports(_)
TotalExports(mods) ==
    IF mods = <<>> THEN 0 ELSE Len(Head(mods).exports) + TotalExports(Tail(mods))

InitStatic ==
    /\ parallelism = 1
    /\ StreamingIdle
    /\ sources \in Inventories
    /\ spos = 0
    /\ analysis = <<>>
    /\ crossref = NoCrossRef
    /\ parsed = NoParse
    /\ described = NoDescription
    /\ total = NoTotal

\* one iteration of `for file in &inventory.source_files`
AnalyzeStaticFile ==
    /\ spos < Len(sources)
    /\ LET file == sources[spos + 1]
           r == ParseFile(file.content, file.language)
       IN  /\ spos' = spos + 1
           /\ analysis' =
                 IF ~file.readable THEN analysis
                 ELSE Append(analysis,
                             ModuleOf(file.path, file.language, r.exports, r.imports,
                                      Summary(file.language, r.exports), FALSE))
    /\ UNCHANGED <<diskVars, inputVars, runVars, harnessVars, sources, crossref, parsed,
                   described, total>>

NextStatic ==
    \/ AnalyzeStaticFile
    \/ CrossReference

SpecStatic == InitStatic /\ [][NextStatic]_vars

\* ---- total_exports on an Analysis ----
MaxTotalModules == 3
MaxTotalExports == 2

TotalExportChoices ==
    [name : {"helper", "run"}, kind : {"Function"}, signature : {"None"},
     description : {<<>>}, line_number : {3}]

\* the entry pushed for a file whose read failed
ReadFailureModule(path, language) ==
    ModuleOf(path, language, <<>>, <<>>, <<"Failed to read: ", "error">>, FALSE)

\* the entry pushed for a line of the checkpoint
PlaceholderModule(path) ==
    ModuleOf(path, "Unknown", <<>>, <<>>, <<"(previously analyzed)">>, TRUE)

TotalModuleChoices ==
    { ModuleOf("module_a", "Rust", e, <<>>, Summary("Rust", e), FALSE) :
        e \in SeqsUpTo(TotalExportChoices, MaxTotalExports) }
    \cup { ReadFailureModule("module_b", "Rust"), PlaceholderModule("module_c") }

InitTotal ==
    /\ parallelism = 1
    /\ StreamingIdle
    /\ sources = <<>>
    /\ spos = 0
    /\ analysis \in SeqsUpTo(TotalModuleChoices, MaxTotalModules)
    /\ crossref = NoCrossRef
    /\ parsed = NoParse
    /\ described = NoDescription
    /\ total = NoTotal

\* analysis.total_exports()
TotalExportsStep ==
    /\ total = NoTotal
    /\ total' = TotalExports(analysis)
    /\ UNCHANGED <<diskVars, inputVars, runVars, harnessVars, sources, spos, analysis,
                   crossref, parsed, described>>

NextTotal == TotalExportsStep

SpecTotal == InitTotal /\ [][NextTotal]_vars

\* ---------------------------------------------------------------------
\* Properties
\* ---------------------------------------------------------------------
N == Len(inventory)

Paths == { PathLine(f) : f \in Files }

\* the checkpoint as the invocation found it, and what was appended since
Original == SubSeq(ckpt, 1, startLen)
Appended == SubSeq(ckpt, startLen + 1, Len(ckpt))

CountLine(c, line) == Cardinality({ i \in 1..Len(Lines(c)) : Lines(c)[i] = line })
CountToken(c, t) == Cardinality({ i \in 1..Len(c) : c[i] = t })

\* a checkpoint made of whole lines, each a distinct path of the inventory
CleanCheckpoint(c) ==
    /\ c = <<>> \/ c[Len(c)] = NL
    /\ \A i \in 1..Len(Lines(c)) : Lines(c)[i] \in Paths
    /\ \A i, j \in 1..Len(Lines(c)) : Lines(c)[i] = Lines(c)[j] => i = j

K == Len(Lines(Original))

\* the files the invocation handled: a task was spawned or the read failed
Processed ==
    { f \in Files : \/ task[f].pc # "none"
                     \/ \E i \in DOMAIN modules :
                           modules[i] = [path |-> PathLine(f), kind |-> "readfail"] }

\* the files whose task got a result from the enrichment call
Enriched == { f \in Files : task[f].pc = "done" /\ task[f].result \in {"deep", "structural"} }
Panicked == { f \in Files : task[f].pc = "panicked" }

ModuleCount == Len(modules) + Cardinality(placeholders)

\* a finished resumed run: the checkpoint held K < N whole paths of the inventory
ResumedRunReturned ==
    /\ runPc = "returned"
    /\ CleanCheckpoint(Original)
    /\ K < N

IsPrefix(a, b) == Len(a) <= Len(b) /\ SubSeq(b, 1, Len(a)) = a

C2_ExactlyOnce ==
    /\ \A f \in Enriched : CountLine(ckpt, PathLine(f)) = 1
    /\ \A f \in Files : CountLine(ckpt, PathLine(f)) <= 1

C2_CheckpointInvariant == []C2_ExactlyOnce /\ [][IsPrefix(ckpt, ckpt')]_vars

\* C3: the appends of the tasks of one run are atomic with respect to each
\* other: starting from a checkpoint that ends at a line end, no line appended
\* by the run holds more than one path.
C3_AppendsSerialized ==
    (runPc \in {"spawn", "join", "placeholders", "returned"}
        /\ (Original = <<>> \/ Original[Len(Original)] = NL))
    => \A i \in 1..Len(Lines(Appended)) : Len(Lines(Appended)[i]) <= 1

\* C4: the tasks that hold a permit, among them every task inside the
\* enrichment call or its backoff, are at most parallelism many, and the
\* permits they hold are exactly the ones missing from the semaphore.
Holders == { f \in Files : task[f].pc \in {"running", "write", "save", "nl"} }
InFlight == { f \in Files : task[f].pc = "running" /\ ~TooLarge(f) }

C4_BoundedParallelism ==
    runPc \in {"spawn", "join", "placeholders", "returned"} =>
        /\ InFlight \subseteq Holders
        /\ Cardinality(Holders) <= parallelism
        /\ permits = parallelism - Cardinality(Holders)

C4_Witness ==
    /\ parallelism = 2
    /\ Cardinality(InFlight) = 2
    /\ permits = 0

\* C5: remaining is cut into consecutive batches of parallelism files; while a
\* batch is being spawned or joined no file of a later batch has been read or
\* spawned, and every task of an earlier batch has finished.
PosOf(f) == CHOOSE i \in 1..Len(remaining) : remaining[i] = f
BatchOfPos(i) == (i - 1) \div parallelism
Finished(f) == task[f].pc \in {"none", "done", "panicked"}

C5_BatchBarrier ==
    runPc \in {"spawn", "join"} =>
        /\ pos <= Min(Len(remaining), (batchIdx + 1) * parallelism)
        /\ \A i \in 1..Len(remaining) :
              /\ BatchOfPos(i) > batchIdx => (i > pos /\ task[remaining[i]].pc = "none")
              /\ BatchOfPos(i) < batchIdx => (i <= pos /\ Finished(remaining[i]))
              /\ i <= pos => BatchOfPos(i) <= batchIdx

C5_Witness ==
    /\ runPc = "join"
    /\ batchIdx = 1
    /\ \E f \in Files : task[f].pc = "done" /\ BatchOfPos(PosOf(f)) = 0
    /\ \E f \in Files : task[f].pc = "spawned" /\ BatchOfPos(PosOf(f)) = 1

\* C6: when the capability fails twice with a transient signature and then
\* succeeds, the retry returns the success after a first call made without
\* sleeping and exactly two sleeps, the second twice as long as the first.
TransientSignature(e) == e \in {"rate_limit", "overloaded"}
Sleeps(log) == SelectSeq(log, LAMBDA e : e.ev = "sleep")

C6_RetryOnTransient ==
    (out # NoOut /\ TransientSignature(script[1]) /\ TransientSignature(script[2])
        /\ script[3] = "ok")
    => /\ out.ok
       /\ out.log[1].ev = "call"
       /\ Calls(out.log) = 3
       /\ Len(Sleeps(out.log)) = 2
       /\ Sleeps(out.log)[2].delay = 2 * Sleeps(out.log)[1].delay
       /\ out.log[Len(out.log)] = [ev |-> "call", delay |-> 0, resp |-> "ok"]

C6_Witness ==
    /\ out.ok
    /\ script = <<"rate_limit", "overloaded", "ok">>

\* C7: when the first call fails with an error that has no transient
\* signature, the retry returns that error after this one call and no sleep,
\* and the task takes the structural-only branch with has_deep_analysis false.
C7_TerminalNotRetried ==
    (out # NoOut /\ script[1] # "ok" /\ ~TransientSignature(script[1]))
    => /\ ~out.ok
       /\ out.err = script[1]
       /\ out.log = << [ev |-> "call", delay |-> 0, resp |-> script[1]] >>
       /\ BranchResult(out) = "structural"
       /\ ~HasDeepAnalysis(BranchResult(out))

C7_Witness ==
    /\ out # NoOut
    /\ script[1] = "ANTHROPIC_API_KEY not set"
    /\ script[2] = "ok"

\* C8: a task whose content is longer than 100000 bytes never calls the
\* enrichment and ends with has_deep_analysis false; a task whose content is
\* at most 100000 bytes long has called it once it is past the guard.
EntryOf(f) == { i \in DOMAIN modules : modules[i].path = PathLine(f) /\ modules[i].kind # "readfail" }

C8_LargeFileGuard ==
    \A f \in Files :
        task[f].pc # "none" =>
            IF task[f].content.len > 100000
            THEN /\ task[f].calls = 0
                 /\ task[f].pc \in {"spawned", "running", "done"}
                 /\ task[f].pc = "done" => ~HasDeepAnalysis(task[f].result)
                 /\ \A i \in EntryOf(f) : ~HasDeepAnalysis(modules[i].kind)
            ELSE task[f].pc \notin {"spawned", "running"} => task[f].calls >= 1

C8_Witness ==
    \E f, g \in Files :
        /\ task[f].content.len = 100001 /\ EntryOf(f) # {}
        /\ task[g].content.len = 100000 /\ EntryOf(g) # {} /\ task[g].calls >= 1

\* C9: a run never aborts, and the Analysis it returns holds a module entry
\* for every source file of the inventory.
HasEntry(f) ==
    \/ \E i \in DOMAIN modules : modules[i].path = PathLine(f)
    \/ \E e \in placeholders : e.path = PathLine(f)

C9_CompletesWithEveryFile ==
    /\ runPc # "aborted"
    /\ runPc = "returned" => \A f \in Files : HasEntry(f)

\* C10: a file whose enrichment failed terminally has its structural-only
\* document written and its path in the checkpoint as a line, and no later
\* run processes a file again whose path an earlier run appended after such a
\* failure.
C10_FailedFileCheckpointed ==
    \A f \in Files :
        /\ (task[f].pc = "done" /\ task[f].result = "structural")
              => (docs[f] = "structural" /\ PathLine(f) \in LoadProgress(ckpt))
        /\ (task[f].pc \in {"spawned", "running"} /\ docs[f] = "structural")
              => CountToken(ckpt, f) = 0

\* C12: a returned run holds exactly one placeholder for each line of the
\* checkpoint it started from, has spawned no task, written no line and
\* pushed no module for a file whose path is such a line, and its module
\* count is the count of a run started without a checkpoint: one module per
\* file of the inventory, less the tasks that panicked.
C12_ResumePlaceholders ==
    runPc = "returned" =>
        /\ placeholders = { [path |-> l, kind |-> "placeholder"] : l \in LoadProgress(Original) }
        /\ \A f \in Files :
              PathLine(f) \in LoadProgress(Original) =>
                  /\ task[f] = NoTask
                  /\ CountToken(Appended, f) = 0
                  /\ \A i \in DOMAIN modules : modules[i].path # PathLine(f)
        /\ ModuleCount = N - Cardinality(Panicked)

\* ---- cross_reference ----
\* the gap list holds a gap about export j of module i
GapAbout(i, j) ==
    \E k \in DOMAIN crossref.gaps :
        /\ crossref.gaps[k].location
              = <<analysis[i].path, ":", analysis[i].exports[j].line_number>>
        /\ crossref.gaps[k].description[4] = analysis[i].exports[j].name

\* module b has an import with is_external = false whose items include n
ImportsInternally(b, n) ==
    \E j \in DOMAIN analysis[b].imports :
        /\ ~analysis[b].imports[j].is_external
        /\ \E k \in DOMAIN analysis[b].imports[j].items : analysis[b].imports[j].items[k] = n

ReferencedInternally(n) == \E b \in DOMAIN analysis : ImportsInternally(b, n)

ExportsName(a, n) == \E j \in DOMAIN analysis[a].exports : analysis[a].exports[j].name = n

\* the names of the inventory that are "main" or hold "test"
ExemptName(n) == n \in {"main", "my_test"}

Range(f) == { f[x] : x \in DOMAIN f }

\* C13 (as stated): for any export E, a gap is emitted for E iff E.description
\* is empty and no internal import references E.name.
C13_GapSuppressionLaw ==
    crossref.done =>
        \A i \in DOMAIN analysis : \A j \in DOMAIN analysis[i].exports :
            GapAbout(i, j) <=> (/\ analysis[i].exports[j].description = <<>>
                                /\ ~ReferencedInternally(analysis[i].exports[j].name))

\* C13 (amended): for any export E whose name is not "main" and does not
\* contain "test", a gap is emitted for E iff E.description is empty and no
\* internal import references E.name.
C13_GapLawNonExempt ==
    crossref.done =>
        \A i \in DOMAIN analysis : \A j \in DOMAIN analysis[i].exports :
            ~ExemptName(analysis[i].exports[j].name) =>
                (GapAbout(i, j) <=> (/\ analysis[i].exports[j].description = <<>>
                                     /\ ~ReferencedInternally(analysis[i].exports[j].name)))

C13_Witness ==
    /\ crossref.done
    /\ analysis[1].exports # <<>> /\ analysis[2].exports # <<>>
    /\ analysis[1].exports[1].name = "helper" /\ analysis[1].exports[1].description = <<>>
    /\ analysis[2].exports[1].name = "run" /\ analysis[2].exports[1].description = <<>>
    /\ ImportsInternally(2, "helper")
    /\ ~GapAbout(1, 1)
    /\ GapAbout(2, 1)

\* C14: no gap is about an export named "main" or holding "test", and every
\* gap has kind MissingDocumentation and the location path:line of an export.
C14_GapExemption ==
    crossref.done =>
        /\ \A i \in DOMAIN analysis : \A j \in DOMAIN analysis[i].exports :
              ExemptName(analysis[i].exports[j].name) => ~GapAbout(i, j)
        /\ \A k \in DOMAIN crossref.gaps :
              /\ crossref.gaps[k].kind = "MissingDocumentation"
              /\ \E i \in DOMAIN analysis : \E j \in DOMAIN analysis[i].exports :
                    /\ crossref.gaps[k].location
                          = <<analysis[i].path, ":", analysis[i].exports[j].line_number>>
                    /\ crossref.gaps[k].description[4] = analysis[i].exports[j].name
                    /\ ~ExemptName(analysis[i].exports[j].name)

C14_Witness ==
    /\ crossref.done
    /\ analysis[1].exports # <<>> /\ analysis[2].exports # <<>>
    /\ analysis[1].exports[1].name = "my_test" /\ analysis[1].exports[1].description = <<>>
    /\ analysis[2].exports[1].name = "Test" /\ analysis[2].exports[1].description = <<>>
    /\ Len(crossref.gaps) = 1
    /\ GapAbout(2, 1)

\* C15 (as stated): when module A exports n and module B imports n internally,
\* dependencies[B] contains A's path and no gap is emitted for n.
C15_DependencyResolution ==
    crossref.done =>
        \A n \in XNames : \A a, b \in DOMAIN analysis :
            (ExportsName(a, n) /\ ImportsInternally(b, n)) =>
                /\ analysis[a].path \in Range(crossref.dependencies[analysis[b].path])
                /\ \A j \in DOMAIN analysis[a].exports :
                      analysis[a].exports[j].name = n => ~GapAbout(a, j)

LastExporter(n) ==
    CHOOSE a \in DOMAIN analysis :
        ExportsName(a, n) /\ \A c \in DOMAIN analysis : ExportsName(c, n) => c <= a

\* C15 (amended): when some module exports n and module B imports n
\* internally, dependencies[B] contains the path of the last module of
\* Analysis.modules that exports n, and no gap is emitted for any export
\* named n.
C15_ResolvesToLastExporter ==
    crossref.done =>
        \A n \in XNames : \A a, b \in DOMAIN analysis :
            (ExportsName(a, n) /\ ImportsInternally(b, n)) =>
                /\ analysis[LastExporter(n)].path
                      \in Range(crossref.dependencies[analysis[b].path])
                /\ \A j \in DOMAIN analysis[a].exports :
                      analysis[a].exports[j].name = n => ~GapAbout(a, j)

C15_Witness ==
    /\ crossref.done
    /\ ExportsName(1, "helper") /\ ~ExportsName(2, "helper")
    /\ analysis[1].exports[1].description = <<>>
    /\ ImportsInternally(2, "helper")
    /\ crossref.dependencies[analysis[2].path] = <<analysis[1].path>>
    /\ ~GapAbout(1, 1)

\* C16: when several modules export n, an internal import of n adds the path
\* of the last of them to the importer's dependencies, and the path of an
\* earlier one is there only if it is the last exporter of another imported
\* name.
C16_LastWriteWins ==
    crossref.done =>
        \A n \in XNames : \A a, b \in DOMAIN analysis :
            (ExportsName(a, n) /\ ImportsInternally(b, n)) =>
                /\ analysis[LastExporter(n)].path
                      \in Range(crossref.dependencies[analysis[b].path])
                /\ (a # LastExporter(n)
                     /\ analysis[a].path \in Range(crossref.dependencies[analysis[b].path]))
                    => \E n2 \in XNames \ {n} :
                          /\ ImportsInternally(b, n2)
                          /\ ExportsName(a, n2)
                          /\ LastExporter(n2) = a

C16_Witness ==
    /\ crossref.done
    /\ ExportsName(1, "helper") /\ ExportsName(2, "helper")
    /\ ImportsInternally(1, "helper")
    /\ crossref.dependencies[analysis[1].path] = <<analysis[2].path>>
    /\ StrLess(analysis[2].path, analysis[1].path)

Ascending(v) == \A i \in 1..(Len(v) - 1) : StrLess(v[i], v[i + 1])

ExternalSources ==
    { src \in {"crate", "serde", "anyhow"} :
        \E i \in DOMAIN analysis : \E j \in DOMAIN analysis[i].imports :
            analysis[i].imports[j].is_external /\ analysis[i].imports[j].source = src }

\* C17: every dependencies list and external_deps are ascending without a
\* repeated entry, and external_deps holds exactly the sources of the imports
\* with is_external = true.
C17_SortedDeduplicated ==
    crossref.done =>
        /\ \A p \in DOMAIN crossref.dependencies : Ascending(crossref.dependencies[p])
        /\ Ascending(crossref.external_deps)
        /\ Range(crossref.external_deps) = ExternalSources

C17_Witness ==
    /\ crossref.done
    /\ ExportsName(1, "run") /\ ExportsName(2, "helper")
    /\ StrLess(analysis[1].path, analysis[2].path)
    /\ analysis[2].imports # <<>>
    /\ analysis[2].imports[1].items = <<"helper", "run">>
    /\ ~analysis[2].imports[1].is_external
    /\ crossref.dependencies[analysis[2].path] = <<analysis[1].path, analysis[2].path>>

\* ---- parse_file ----
\* C19: for a language other than Rust, TypeScript and JavaScript parse_file
\* returns Ok with no export and no import, whatever the content.
C19_UnsupportedLanguageEmpty ==
    (parsed.done /\ sources[1].language \notin {"Rust", "TypeScript", "JavaScript"})
    => /\ parsed.ok
       /\ parsed.exports = <<>>
       /\ parsed.imports = <<>>

C19_Witness ==
    /\ parsed.done
    /\ sources[1].language = "Python"
    /\ sources[1].content
         = <<DeclLine("function", "pub", "helper"), UseLine(<<"serde", "::", "helper">>)>>

\* C20: the export list of a Rust source holds exactly its declarations
\* written with plain pub, in order, each with the kind of its form and the
\* line of its name; declarations without pub or with pub(crate) are not in it.
PublicLines(content) ==
    SelectSeq(Indices(content), LAMBDA i : content[i].t = "decl" /\ content[i].vis = "pub")

C20_ExportVisibilityFilter ==
    (parsed.done /\ sources[1].language = "Rust") =>
        LET pub == PublicLines(sources[1].content)
        IN  /\ Len(parsed.exports) = Len(pub)
            /\ \A k \in 1..Len(pub) :
                  /\ parsed.exports[k].name = sources[1].content[pub[k]].name
                  /\ parsed.exports[k].kind = RustKind(sources[1].content[pub[k]].form)
                  /\ parsed.exports[k].line_number = pub[k]

\* ---- analyze_static ----
\* C11: analyze_static returns one module per source file of the inventory,
\* in order, with the file's path and language, and with no export and no
\* import for a file that could not be read.
C11_StaticReadFailureRecovered ==
    (sources # <<>> /\ spos = Len(sources) /\ ~parsed.done) =>
        /\ Len(analysis) = Len(sources)
        /\ \A i \in DOMAIN sources :
              /\ analysis[i].path = sources[i].path
              /\ analysis[i].language = sources[i].language
              /\ ~sources[i].readable =>
                    (analysis[i].exports = <<>> /\ analysis[i].imports = <<>>)

\* C18: module_a with a documented pub fn helper and module_b with
\* "use crate::module_a::helper" and an undocumented pub fn run give
\* dependencies[module_b] = [module_a], one gap, about run, no external
\* dependency and two exports in total.
ScenarioAB ==
    /\ Len(sources) >= 2
    /\ sources[1] = SourceFile("module_a", "Rust", TRUE, ContentA)
    /\ sources[2] = SourceFile("module_b", "Rust", TRUE, ContentB)
    /\ \A i \in 3..Len(sources) : ~sources[i].readable

C18_EndToEnd ==
    (crossref.done /\ ScenarioAB) =>
        /\ crossref.dependencies["module_b"] = <<"module_a">>
        /\ Len(crossref.gaps) = 1
        /\ crossref.gaps[1].description[4] = "run"
        /\ crossref.gaps[1].location = <<"module_b", ":", 2>>
        /\ crossref.external_deps = <<>>
        /\ TotalExports(analysis) = 2

C18_Witness ==
    /\ crossref.done
    /\ ScenarioAB
    /\ Len(analysis) = 2

\* ---- doc-comment association ----
DocContent == sources[1].content

\* a line the walk passes over: a doc, attribute or inner-doc line, or a
\* blank line with a doc line below it and above the declaration
Passed(content, line, k) ==
    \/ content[k].t \in {"doc", "attr", "innerdoc"}
    \/ (content[k].t = "blank" /\ \E j \in (k + 1)..(line - 1) : content[j].t = "doc")

\* the first line of the block that ends just above `line`
BlockStart(content, line) ==
    CHOOSE i \in 1..line :
        /\ \A k \in i..(line - 1) : Passed(content, line, k)
        /\ (i > 1 => ~Passed(content, line, i - 1))

DocTextsIn(content, from, to) ==
    LET docs_ == SelectSeq(SubSeq(Indices(content), from, to), LAMBDA k : content[k].t = "doc")
    IN  [n \in 1..Len(docs_) |-> content[docs_[n]].text]

\* the first line of the block when only attribute and blank lines may
\* be interleaved, wherever they stand
LenientStart(content, line) ==
    CHOOSE i \in 1..line :
        /\ \A k \in i..(line - 1) : content[k].t \in {"doc", "attr", "blank"}
        /\ (i > 1 => content[i - 1].t \notin {"doc", "attr", "blank"})

ValidLine == described.line \in 1..Len(DocContent)

C21_BlankAboveDeclaration ==
    /\ described.done
    /\ DocContent = <<DocLine("documented"), BlankLine, DeclLine("function", "pub", "helper")>>
    /\ described.line = 3
    /\ described.text = <<>>

\* ---- import classification ----
ParsedContent == sources[1].content

UseLines(content) == SelectSeq(Indices(content), LAMBDA i : content[i].t = "use")

ImportLines(content) == SelectSeq(Indices(content), LAMBDA i : content[i].t = "import")

\* the path begins with crate::, self:: or super::
InternalRustPath(path) ==
    Len(path) >= 2 /\ path[1] \in {"crate", "self", "super"} /\ path[2] = "::"

NonSeparators(path) == SelectSeq(path, LAMBDA tok : tok # "::")

\* the source begins with '.', '/' or '@/'
InternalJsSource(source) ==
    LET chars == Text(source)
    IN  /\ chars # <<>>
        /\ \/ chars[1] \in {".", "/"}
           \/ (Len(chars) >= 2 /\ chars[1] = "@" /\ chars[2] = "/")

\* C22: every import the parser produces is external exactly when its path
\* is not project-internal (Rust: it begins with crate::, self:: or super::;
\* JS/TS: the source begins with '.', '/' or '@/'); a Rust import has the
\* first ::-separated segment as its source and the other segments, in order,
\* as its items
C22_ImportClassification ==
    parsed.done =>
        /\ sources[1].language = "Rust" =>
              LET us == UseLines(ParsedContent) IN
              /\ Len(parsed.imports) = Len(us)
              /\ \A k \in 1..Len(us) :
                    LET path == ParsedContent[us[k]].path
                        imp == parsed.imports[k]
                    IN  /\ imp.is_external = ~InternalRustPath(path)
                        /\ imp.source = path[1]
                        /\ imp.items = Tail(NonSeparators(path))
        /\ sources[1].language \in {"TypeScript", "JavaScript"} =>
              LET ms == ImportLines(ParsedContent) IN
              /\ Len(parsed.imports) = Len(ms)
              /\ \A k \in 1..Len(ms) :
                    LET imp == parsed.imports[k]
                    IN  /\ imp.source = ParsedContent[ms[k]].text
                        /\ imp.is_external = ~InternalJsSource(imp.source)
                        /\ imp.items = <<>>

\* a scoped package next to an aliased project path in a TypeScript file,
\* and a super:: path next to a bare crate name in a Rust file
C22_Witness ==
    /\ parsed.done
    /\ \/ /\ sources[1].language = "TypeScript"
          /\ ParsedContent = <<JsImportLine("@scope/pkg"), JsImportLine("@/app")>>
          /\ parsed.imports[1].is_external
          /\ ~parsed.imports[2].is_external
       \/ /\ sources[1].language = "Rust"
          /\ ParsedContent = <<UseLine(<<"super", "::", "module_a", "::", "helper">>),
                               UseLine(<<"serde">>)>>
          /\ ~parsed.imports[1].is_external
          /\ parsed.imports[1].items = <<"module_a", "helper">>
          /\ parsed.imports[2].is_external

\* ---- total_exports ----
ExportSlots(mods) == { <<i, j>> \in (1..Len(mods)) \X (1..MaxTotalExports) : j <= Len(mods[i].exports) }

IsPlaceholderOrReadFailure(m) ==
    m = PlaceholderModule(m.path) \/ m = ReadFailureModule(m.path, m.language)

WithoutRecoveryEntries(mods) == SelectSeq(mods, LAMBDA m : ~IsPlaceholderOrReadFailure(m))

\* C23: total_exports is the number of exports over all modules: 0 for an
\* empty analysis, and the same with or without its placeholder and
\* read-failure modules
C23_TotalExports ==
    total # NoTotal =>
        /\ total = Cardinality(ExportSlots(analysis))
        /\ (analysis = <<>> => total = 0)
        /\ total = Cardinality(ExportSlots(WithoutRecoveryEntries(analysis)))

\* a module with two exports between a placeholder and a read-failure entry
C23_Witness ==
    /\ total = 2
    /\ Len(analysis) = 3
    /\ IsPlaceholderOrReadFailure(analysis[1])
    /\ Len(analysis[2].exports) = 2
    /\ IsPlaceholderOrReadFailure(analysis[3])

\* ---- order of the module entries of a streaming run ----
FileOf(i) == modules[i].path[1]

IsTaskEntry(i) == modules[i].kind # "readfail"

SameBatch(f, g) == BatchOfPos(PosOf(f)) = BatchOfPos(PosOf(g))

DoneIndex(f) == CHOOSE n \in 1..Len(doneOrder) : doneOrder[n] = f

AllTransient == \A i \in 1..MaxRetries : TransientSignature(script[i])

\* C25: the enrichment is called at most 3 times for a file; when every
\* attempt fails with a transient signature there are exactly 3 calls and 2
\* sleeps, the retry returns the failure and the task falls back to the
\* structural-only result; the calls and sleeps of a file are at most 5
C25_AttemptCap ==
    out # NoOut =>
        /\ Calls(out.log) <= 3
        /\ Len(out.log) <= 5
        /\ AllTransient =>
              /\ Calls(out.log) = 3
              /\ Len(Sleeps(out.log)) = 2
              /\ ~out.ok
              /\ out.err = script[MaxRetries]
              /\ BranchResult(out) = "structural"

C25_Witness ==
    /\ out # NoOut
    /\ script = <<"overloaded", "rate_limit", "overloaded">>
    /\ Calls(out.log) = 3

\* ---- write before checkpoint ----
InCheckpoint(f) == CountToken(ckpt, f) >= 1

\* C26: the document of a file is written before its path is appended to the
\* checkpoint, so every path in the checkpoint has its document; a file whose
\* document was written but whose path is not in the checkpoint is among the
\* files the next run processes
C26_WriteBeforeCheckpoint ==
    /\ \A f \in Files : InCheckpoint(f) => docs[f] # "none"
    /\ \A f \in Files :
          (task[f].pc \in {"save", "nl", "done"} /\ task[f].result \in {"deep", "structural"}) =>
              docs[f] = task[f].result
    /\ runPc \in {"spawn", "join", "placeholders", "returned"} =>
          \A f \in Files :
              (docs[f] # "none" /\ CountToken(Original, f) = 0) =>
                  \E i \in 1..Len(remaining) : remaining[i] = f

\* after a crash between the write and the append, the next run has spawned
\* the task of the file again
C26_Witness ==
    /\ runs = 2
    /\ \E f \in Files :
          /\ docs[f] # "none"
          /\ ~InCheckpoint(f)
          /\ task[f].pc = "running"

\* ---- no enrichment call, no document and no checkpoint line ----
ReadFailed(f) ==
    \E i \in 1..Len(modules) : modules[i] = [path |-> PathLine(f), kind |-> "readfail"]

WrittenOrAppended(f) ==
    docs'[f] # docs[f] \/ CountToken(ckpt', f) > CountToken(ckpt, f)

\* C27: a document is written and a path appended only for a file for which
\* the enrichment was called in the current run; a file over the size
\* threshold or whose read failed gets no checkpoint token and keeps the
\* document state it had, and a file with no path in the checkpoint is in
\* the remaining list of every run
C27_OnlyAfterEnrichment ==
    /\ [][\A f \in Files : WrittenOrAppended(f) => (task[f].calls >= 1 /\ ~TooLarge(f))]_vars
    /\ [](\A f \in Files :
             (ReadFailed(f) \/ task[f].result = "toolarge") => CountToken(Appended, f) = 0)
    /\ [](runPc \in {"spawn", "join", "placeholders", "returned"} =>
             \A f \in Files :
                 CountToken(Original, f) = 0 => \E i \in 1..Len(remaining) : remaining[i] = f)

\* a second run in which a file is again over the threshold and another
\* file's read fails again, neither with a document or a checkpoint token
C27_Witness ==
    /\ runs = 2
    /\ runPc = "returned"
    /\ \E f, g \in Files :
          /\ task[f].pc = "done" /\ task[f].result = "toolarge"
          /\ ReadFailed(g)
          /\ docs[f] = "none" /\ docs[g] = "none"
          /\ CountToken(ckpt, f) = 0 /\ CountToken(ckpt, g) = 0
          /\ \E h \in Files : CountToken(Original, h) >= 1

\* ---- module count of a streaming run ----
CheckpointLines == { Lines(Original)[i] : i \in 1..Len(Lines(Original)) }

NotCheckpointed == { f \in Files : PathLine(f) \notin CheckpointLines }

EntriesOfPath(p) ==
    Cardinality({ i \in 1..Len(modules) : modules[i].path = p })
    + Cardinality({ e \in placeholders : e.path = p })

\* C28: a run that returns with no panicked task has one module per file of
\* the inventory whose path is not a line of the checkpoint and one
\* placeholder per distinct line of the checkpoint, also for a line that
\* names no file of the inventory; no path of the inventory has two entries
C28_ModuleCount ==
    (runPc = "returned" /\ Panicked = {}) =>
        /\ ModuleCount = Cardinality(NotCheckpointed) + Cardinality(CheckpointLines)
        /\ Len(modules) = Cardinality(NotCheckpointed)
        /\ { e.path : e \in placeholders } = CheckpointLines
        /\ \A f \in Files : EntriesOfPath(PathLine(f)) = 1

\* a returned run whose checkpoint held a line that names no file
C28_Witness ==
    /\ runPc = "returned"
    /\ Panicked = {}
    /\ \E line \in CheckpointLines : line \notin Paths
    /\ \E line \in CheckpointLines : line \in Paths
    /\ Len(modules) >= 1

\* ---- order independence of cross_reference ----
OrdersOf(n) == { q \in [1..n -> 1..n] : \A i, j \in 1..n : q[i] = q[j] => i = j }

Permuted(mods, q) == [i \in 1..Len(mods) |-> mods[q[i]]]

\* every export name is exported by at most one module
UniqueExporters ==
    \A a, b \in DOMAIN analysis :
        \A n \in XNames : (ExportsName(a, n) /\ ExportsName(b, n)) => a = b

\* C29: when every export name is exported by at most one module, every
\* permutation of the modules gives the same dependencies map, the same
\* external_deps list and the same set of gaps
C29_OrderIndependence ==
    (crossref.done /\ UniqueExporters) =>
        \A q \in OrdersOf(Len(analysis)) :
            LET other == CrossReferenceOf(Permuted(analysis, q))
            IN  /\ other.dependencies = crossref.dependencies
                /\ other.external_deps = crossref.external_deps
                /\ Range(other.gaps) = Range(crossref.gaps)

\* the first module exports an undocumented name and imports the second
\* module's export; the second module imports an external package
C29_Witness ==
    /\ crossref.done
    /\ UniqueExporters
    /\ Len(analysis) = 2
    /\ ExportsName(1, "run") /\ ExportsName(2, "helper")
    /\ ImportsInternally(1, "helper")
    /\ crossref.dependencies[analysis[1].path] = <<analysis[2].path>>
    /\ Len(crossref.gaps) >= 1
    /\ crossref.external_deps # <<>>

\* ---- usage marking by name ----
NamedItems(b) == { n \in XNames : ImportsInternally(b, n) }

\* C30: when some module imports n internally and some module exports n, no
\* gap is emitted for any export named n, not even one of the importing
\* module; a module whose internal imports all have empty items has no
\* dependency, and when no internal import has an item every undocumented
\* export that is not exempt has its gap
C30_UsageByName ==
    crossref.done =>
        /\ \A n \in XNames :
              (ReferencedInternally(n) /\ \E a \in DOMAIN analysis : ExportsName(a, n)) =>
                  \A i \in DOMAIN analysis : \A j \in DOMAIN analysis[i].exports :
                      analysis[i].exports[j].name = n => ~GapAbout(i, j)
        /\ \A b \in DOMAIN analysis :
              NamedItems(b) = {} => crossref.dependencies[analysis[b].path] = <<>>
        /\ (\A b \in DOMAIN analysis : NamedItems(b) = {}) =>
              \A i \in DOMAIN analysis : \A j \in DOMAIN analysis[i].exports :
                  (analysis[i].exports[j].description = <<>>
                      /\ ~ExemptName(analysis[i].exports[j].name)) => GapAbout(i, j)

\* both modules export an undocumented helper, the first imports helper
\* internally and the second has an internal import without items
C30_Witness ==
    /\ crossref.done
    /\ Len(analysis) = 2
    /\ \A i \in 1..2 : /\ ExportsName(i, "helper")
                         /\ analysis[i].exports[1].description = <<>>
    /\ ImportsInternally(1, "helper")
    /\ \E j \in DOMAIN analysis[2].imports :
          ~analysis[2].imports[j].is_external /\ analysis[2].imports[j].items = <<>>
    /\ crossref.gaps = <<>>
    /\ crossref.dependencies[analysis[2].path] = <<>>
====
